---- MODULE Spec2Model ----
(***************************************************************************)
(* MIPI CSI-2 D-PHY protocol decoder (src/mipi_csi2_dphy/pd.py).           *)
(*                                                                         *)
(* The Decoder object is the record `self`; every operator below that is   *)
(* named after a method takes the object, returns the object after the     *)
(* call, and follows the statements of that method in order.  The three    *)
(* outputs registered in start() are modelled by the fields out_python,    *)
(* out_ann and out_binary: the records put on each output during the       *)
(* latest iteration of the decode() loop, in the order they were put.      *)
(*                                                                         *)
(* Attributes that reset() sets and that no method on the decode path      *)
(* reads or writes (samplerate, expected_bitrate, state, packet_start,     *)
(* packet_data, current_lane, byte_buffers) are not part of the record.    *)
(* The debugging print() calls have no effect on the object and are left   *)
(* out.  The `elif` of update_lane_state at pd.py:371 has no statement in  *)
(* its body (only a comment); it is read as an empty branch.               *)
(***************************************************************************)
EXTENDS Integers, Sequences, FiniteSets, TLC

\* ------------------------------------------------------------------------
\* Python values
\* ------------------------------------------------------------------------
\* Python's None where the other values are integers (pins, sample numbers)
None == -1
\* the None that detect_lane_state returns instead of a lane state
NoState == "None"

\* ------------------------------------------------------------------------
\* Protocol constants (pd.py:49-79)
\* ------------------------------------------------------------------------
SYNC_MARKER == 184

LANE_STATE_LP_11 == "LP-11"
LANE_STATE_LP_01 == "LP-01"
LANE_STATE_LP_00 == "LP-00"
LANE_STATE_LP_10 == "LP-10"
LANE_STATE_THS_SETTLE == "THS-SETTLE"
LANE_STATE_HS == "HS"
LANE_STATE_HS_SYNC == "HS-SYNC"
LANE_STATE_HS_TRAIL == "HS-TRAIL"

CSI2_DT_YUV422_8BIT == 30
CSI2_DT_RGB888 == 36
CSI2_DT_RAW8 == 42
CSI2_DT_RAW10 == 43
CSI2_DT_RAW16 == 46

\* range(4): the lanes every per-lane list of the decoder has
Lanes == 0 .. 3

\* ------------------------------------------------------------------------
\* Integer helpers for Python's bit operators on non-negative integers
\* ------------------------------------------------------------------------
RECURSIVE BitAnd(_, _)
BitAnd(a, b) ==
    IF a = 0 \/ b = 0 THEN 0
    ELSE (IF a % 2 = 1 /\ b % 2 = 1 THEN 1 ELSE 0) + 2 * BitAnd(a \div 2, b \div 2)

RECURSIVE BitOr(_, _)
BitOr(a, b) ==
    IF a = 0 THEN b
    ELSE IF b = 0 THEN a
    ELSE (IF a % 2 = 1 \/ b % 2 = 1 THEN 1 ELSE 0) + 2 * BitOr(a \div 2, b \div 2)

RECURSIVE Pow2(_)
Pow2(k) == IF k = 0 THEN 1 ELSE 2 * Pow2(k - 1)

Shl(a, k) == a * Pow2(k)
Shr(a, k) == a \div Pow2(k)

\* ------------------------------------------------------------------------
\* Outputs: put() on one of the three registered outputs
\* ------------------------------------------------------------------------
\* self.putg(ss, es, cls, text): text is the tuple of the values that the
\* f-string formats (a label first), so that two texts are equal exactly
\* when the formatted strings are.
putg(s, ss, es, cls, text) ==
    [s EXCEPT !.out_ann = Append(@, [ss |-> ss, es |-> es, cls |-> cls, text |-> text])]

\* self.putp(ss, es, [ptype, pdata]); pdata is a tuple, <<>> for None
putp(s, ss, es, ptype, pdata) ==
    [s EXCEPT !.out_python = Append(@, [ss |-> ss, es |-> es, ptype |-> ptype, pdata |-> pdata])]

\* self.putb(ss, es, data)
putb(s, ss, es, data) ==
    [s EXCEPT !.out_binary = Append(@, [ss |-> ss, es |-> es, data |-> data])]

\* ------------------------------------------------------------------------
\* Decoder.__init__ / Decoder.reset
\* ------------------------------------------------------------------------
\* The attributes that reset() assigns.
ResetFields ==
    [ num_lanes |-> 0,
      detected_lanes |-> 0,
      lane_states |-> [l \in Lanes |-> LANE_STATE_LP_11],
      lane_state_start |-> [l \in Lanes |-> 0],
      bit_shifters |-> [l \in Lanes |-> 0],
      bit_counters |-> [l \in Lanes |-> 0],
      sync_detected |-> [l \in Lanes |-> FALSE],
      byte_synchronized |-> [l \in Lanes |-> FALSE],
      packet_state |-> "IDLE",
      packet_buffer |-> << >>,
      expected_packet_length |-> 0,
      packet_end_detected |-> [l \in Lanes |-> FALSE],
      lane_detection_active |-> TRUE,
      lane_transition_count |-> [l \in Lanes |-> 0],
      lane_detection_threshold |-> 10,
      lane_activity_start |-> [l \in Lanes |-> None],
      lane_activity_duration |-> 5000,
      lane_sync_detected |-> [l \in Lanes |-> FALSE],
      out_python |-> << >>,
      out_ann |-> << >>,
      out_binary |-> << >> ]

\* The attributes that only detect_lane_state creates (pd.py:261-265), with
\* has_lane_prev_state standing for hasattr(self, 'lane_prev_state').  While
\* the attributes do not exist the record carries the values they are
\* created with.
LazyFields ==
    [ has_lane_prev_state |-> FALSE,
      lane_prev_state |-> [l \in Lanes |-> LANE_STATE_LP_11],
      lane_in_ths_settle |-> [l \in Lanes |-> FALSE],
      lane_was_lp00 |-> [l \in Lanes |-> FALSE] ]

\* self.samplenum belongs to the host: wait() sets it before it returns and
\* no method reads the value of an earlier iteration.
HostFields == [ samplenum |-> 0 ]

\* Decoder(): __init__ calls reset() on an object without attributes
NewDecoder == ResetFields @@ LazyFields @@ HostFields

\* reset() on an existing object: assigns the attributes of ResetFields and
\* leaves every other attribute of the object as it is.
reset(s) ==
    [f \in DOMAIN s |-> IF f \in DOMAIN ResetFields THEN ResetFields[f] ELSE s[f]]

\* start(): registers the outputs and reads the 'lanes' option
start(s, lanes_option) ==
    [s EXCEPT !.num_lanes = lanes_option]

\* ------------------------------------------------------------------------
\* Lane State Classifier: Decoder.detect_lane_state (pd.py:251-341)
\* ------------------------------------------------------------------------
\* pd.py:269-280: the physical state of a differential pair
PhysicalState(data_p, data_n) ==
    IF data_p = 1 /\ data_n = 1 THEN LANE_STATE_LP_11
    ELSE IF data_p = 0 /\ data_n = 1 THEN LANE_STATE_LP_01
    ELSE IF data_p = 0 /\ data_n = 0 THEN LANE_STATE_LP_00
    ELSE IF data_p = 1 /\ data_n = 0 THEN LANE_STATE_LP_10
    ELSE LANE_STATE_LP_11

\* pd.py:260-265: create the tracking attributes on the first call
InitTracking(s) ==
    IF ~s.has_lane_prev_state
    THEN [s EXCEPT !.has_lane_prev_state = TRUE,
                   !.lane_prev_state = [l \in Lanes |-> LANE_STATE_LP_11],
                   !.lane_in_ths_settle = [l \in Lanes |-> FALSE],
                   !.lane_sync_detected = [l \in Lanes |-> FALSE],
                   !.lane_was_lp00 = [l \in Lanes |-> FALSE]]
    ELSE s

\* pd.py:291-295: rule 2, track LP-00
TrackLp00(s, lane, physical_state) ==
    IF physical_state = LANE_STATE_LP_00
    THEN [s EXCEPT !.lane_was_lp00[lane] = TRUE]
    ELSE IF physical_state = LANE_STATE_LP_11
    THEN [s EXCEPT !.lane_was_lp00[lane] = FALSE]
    ELSE s

\* ClassifyTail with a rule 3 that also applies to a lane in HS-TRAIL
ClassifyTail_settle_from_trail(s, lane, prev_state, physical_state) ==
    IF prev_state \in {LANE_STATE_LP_00, LANE_STATE_HS_TRAIL}
       /\ physical_state # LANE_STATE_LP_00 /\ s.lane_was_lp00[lane]
    THEN [self |-> [s EXCEPT !.lane_in_ths_settle[lane] = TRUE,
                             !.lane_was_lp00[lane] = FALSE,
                             !.lane_prev_state[lane] = LANE_STATE_THS_SETTLE],
          ret |-> LANE_STATE_THS_SETTLE]
    ELSE IF s.lane_in_ths_settle[lane]
    THEN IF s.lane_sync_detected[lane]
         THEN [self |-> [s EXCEPT !.lane_in_ths_settle[lane] = FALSE,
                                  !.lane_prev_state[lane] = LANE_STATE_HS],
               ret |-> LANE_STATE_HS]
         ELSE [self |-> s, ret |-> LANE_STATE_THS_SETTLE]
    ELSE IF prev_state = LANE_STATE_HS /\ s.packet_end_detected[lane]
    THEN [self |-> [s EXCEPT !.packet_end_detected[lane] = FALSE,
                             !.lane_prev_state[lane] = LANE_STATE_HS_TRAIL],
          ret |-> LANE_STATE_HS_TRAIL]
    ELSE IF prev_state = LANE_STATE_HS /\ physical_state # LANE_STATE_LP_11
    THEN [self |-> s, ret |-> LANE_STATE_HS]
    ELSE IF prev_state = LANE_STATE_HS_TRAIL
    THEN IF physical_state = LANE_STATE_LP_11
         THEN [self |-> [s EXCEPT !.lane_prev_state[lane] = LANE_STATE_LP_11],
               ret |-> LANE_STATE_LP_11]
         ELSE [self |-> s, ret |-> LANE_STATE_HS_TRAIL]
    ELSE [self |-> [s EXCEPT !.lane_prev_state[lane] = physical_state],
          ret |-> physical_state]

\* pd.py:297-341: rules 3 to 7, for a physical state other than LP-11;
\* prev_state is the value read at pd.py:267
ClassifyTail(s, lane, prev_state, physical_state) ==
    IF prev_state = LANE_STATE_LP_00 /\ physical_state # LANE_STATE_LP_00
       /\ s.lane_was_lp00[lane]
    THEN [self |-> [s EXCEPT !.lane_in_ths_settle[lane] = TRUE,
                             !.lane_was_lp00[lane] = FALSE,
                             !.lane_prev_state[lane] = LANE_STATE_THS_SETTLE],
          ret |-> LANE_STATE_THS_SETTLE]
    ELSE IF s.lane_in_ths_settle[lane]
    THEN IF s.lane_sync_detected[lane]
         THEN [self |-> [s EXCEPT !.lane_in_ths_settle[lane] = FALSE,
                                  !.lane_prev_state[lane] = LANE_STATE_HS],
               ret |-> LANE_STATE_HS]
         ELSE [self |-> s, ret |-> LANE_STATE_THS_SETTLE]
    ELSE IF prev_state = LANE_STATE_HS /\ s.packet_end_detected[lane]
    THEN [self |-> [s EXCEPT !.packet_end_detected[lane] = FALSE,
                             !.lane_prev_state[lane] = LANE_STATE_HS_TRAIL],
          ret |-> LANE_STATE_HS_TRAIL]
    ELSE IF prev_state = LANE_STATE_HS /\ physical_state # LANE_STATE_LP_11
    THEN [self |-> s, ret |-> LANE_STATE_HS]
    ELSE IF prev_state = LANE_STATE_HS_TRAIL
    THEN IF physical_state = LANE_STATE_LP_11
         THEN [self |-> [s EXCEPT !.lane_prev_state[lane] = LANE_STATE_LP_11],
               ret |-> LANE_STATE_LP_11]
         ELSE [self |-> s, ret |-> LANE_STATE_HS_TRAIL]
    ELSE [self |-> [s EXCEPT !.lane_prev_state[lane] = physical_state],
          ret |-> physical_state]

\* pd.py:267-341: the rules, on the object with its tracking attributes
Classify(s, lane, physical_state) ==
    IF physical_state = LANE_STATE_LP_11
    THEN [self |-> [s EXCEPT !.lane_in_ths_settle[lane] = FALSE,
                             !.lane_sync_detected[lane] = FALSE,
                             !.lane_prev_state[lane] = LANE_STATE_LP_11],
          ret |-> LANE_STATE_LP_11]
    ELSE ClassifyTail(TrackLp00(s, lane, physical_state), lane,
                      s.lane_prev_state[lane], physical_state)

\* detect_lane_state(lane, data_p, data_n): the object after the call and
\* the lane state returned
detect_lane_state(s, lane, data_p, data_n) ==
    IF data_p = None THEN [self |-> s, ret |-> NoState]
    ELSE Classify(InitTracking(s), lane,
                  PhysicalState(data_p, IF data_n = None THEN 0 ELSE data_n))

\* ------------------------------------------------------------------------
\* Lane-Count Estimator: Decoder.detect_active_lanes (pd.py:387-421)
\* ------------------------------------------------------------------------
\* pd.py:405-407 alone: the test without the condition of line 412
LaneIsActive_no_secondary_threshold(s, lane) ==
    /\ s.lane_transition_count[lane] >= s.lane_detection_threshold
    /\ s.lane_activity_start[lane] # None
    /\ (s.samplenum - s.lane_activity_start[lane]) >= s.lane_activity_duration

\* pd.py:405-412: the test that counts a lane as active
LaneIsActive(s, lane) ==
    /\ s.lane_transition_count[lane] >= s.lane_detection_threshold
    /\ s.lane_activity_start[lane] # None
    /\ (s.samplenum - s.lane_activity_start[lane]) >= s.lane_activity_duration
    /\ (lane = 0 \/ s.lane_transition_count[lane] >= 20)

\* a variant that reports the count without remembering it
SetDetectedLanes_not_remembered(s, active_lanes) ==
    IF active_lanes # s.detected_lanes
    THEN putp(s, s.samplenum, s.samplenum + 1, "LANE_COUNT", <<active_lanes>>)
    ELSE s

\* pd.py:418-421
SetDetectedLanes(s, active_lanes) ==
    IF active_lanes # s.detected_lanes
    THEN putp([s EXCEPT !.detected_lanes = active_lanes],
              s.samplenum, s.samplenum + 1, "LANE_COUNT", <<active_lanes>>)
    ELSE s

detect_active_lanes(s) ==
    SetDetectedLanes(s, Cardinality({lane \in Lanes : LaneIsActive(s, lane)}))

\* ------------------------------------------------------------------------
\* Decoder.update_lane_state (pd.py:343-385)
\* ------------------------------------------------------------------------
\* pd.py:381 without the test of line 380: every entry moves the start
NoteActivityStart_every_entry(s, lane, ss) ==
    [s EXCEPT !.lane_activity_start[lane] = ss]

\* pd.py:379-381: record when the lane first showed activity
NoteActivityStart(s, lane, ss) ==
    IF s.lane_activity_start[lane] = None
    THEN [s EXCEPT !.lane_activity_start[lane] = ss]
    ELSE s

\* pd.py:383-385: run the estimator once the lane has enough transitions
AutoDetect(s, lane) ==
    IF s.lane_detection_active
       /\ s.lane_transition_count[lane] >= s.lane_detection_threshold
    THEN detect_active_lanes(s)
    ELSE s

\* pd.py:375-385: count an entry into HS and run the estimator
TrackHsEntry(s, lane, new_state, ss) ==
    IF new_state \in {LANE_STATE_HS, LANE_STATE_HS_SYNC}
    THEN AutoDetect(
             NoteActivityStart([s EXCEPT !.lane_transition_count[lane] = @ + 1], lane, ss),
             lane)
    ELSE s

\* pd.py:349-354: annotate the duration of the state the lane leaves
AnnotateOldState(s, lane, ss) ==
    IF s.lane_state_start[lane] # None
    THEN putg(s, s.lane_state_start[lane], ss, 10 + lane, <<"L", lane, s.lane_states[lane]>>)
    ELSE s

\* pd.py:361-364: annotate LP-11 at once
AnnotateLp11(s, lane, new_state, ss) ==
    IF new_state = LANE_STATE_LP_11
    THEN putg(s, ss, ss + 100, 10 + lane, <<"L", lane, LANE_STATE_LP_11>>)
    ELSE s

update_lane_state(s, lane, new_state, ss) ==
    IF new_state = NoState THEN s
    ELSE IF s.lane_states[lane] # new_state
    THEN TrackHsEntry(
             AnnotateLp11(
                 putp([AnnotateOldState(s, lane, ss) EXCEPT
                           !.lane_states[lane] = new_state,
                           !.lane_state_start[lane] = ss],
                      ss, ss, "LANE_STATE", <<lane, new_state>>),
                 lane, new_state, ss),
             lane, new_state, ss)
    ELSE s

\* ------------------------------------------------------------------------
\* Pixel Unpacker: Decoder.decode_pixel_data (pd.py:619-700)
\* ------------------------------------------------------------------------
\* payload[i] with Python's 0-based index
At(payload, i) == payload[i + 1]

\* one annotation of class 18 (pixel-data)
PixelAnn(ss, es, text) == [ss |-> ss, es |-> es, cls |-> 18, text |-> text]

\* pd.py:629-635 and 695-700: one byte per pixel, f"{value:02X}"
PixelsPerByte(ss, total_time, payload) ==
    [k \in 1 .. Len(payload) |->
        PixelAnn(ss + ((k - 1) * total_time) \div Len(payload),
                 ss + (k * total_time) \div Len(payload),
                 <<"X2", payload[k]>>)]

\* a variant that takes the low 2 bits of pixel j from bits 2j+1..2j of byte 4
Raw10Pixel_low_bits_reversed(payload, i, j) ==
    BitOr(Shl(At(payload, i + j), 2),
          BitAnd(Shr(At(payload, i + 4), 2 * j), 3))

\* pd.py:644-649: pixel j of the 5-byte group that starts at index i
Raw10Pixel(payload, i, j) ==
    BitOr(Shl(At(payload, i + j), 2),
          BitAnd(Shr(At(payload, i + 4), 6 - 2 * j), 3))

\* pd.py:636-657: the loop body runs for every i with i + 5 <= len(payload)
PixelsRaw10(ss, total_time, payload) ==
    LET total_pixels == (Len(payload) \div 5) * 4
    IN  [k \in 1 .. total_pixels |->
            LET pixel_idx == k - 1
                i == (pixel_idx \div 4) * 5
                j == pixel_idx % 4
            IN  PixelAnn(ss + (pixel_idx * total_time) \div total_pixels,
                         ss + ((pixel_idx + 1) * total_time) \div total_pixels,
                         <<"X3", Raw10Pixel(payload, i, j)>>)]

\* pd.py:658-666: the loop body runs for every even i with i + 1 < len(payload)
PixelsRaw16(ss, total_time, payload) ==
    [k \in 1 .. (Len(payload) \div 2) |->
        LET i == 2 * (k - 1)
        IN  PixelAnn(ss + (i * total_time) \div Len(payload),
                     ss + ((i + 2) * total_time) \div Len(payload),
                     <<"X4", BitOr(At(payload, i), Shl(At(payload, i + 1), 8))>>)]

\* pd.py:667-675: the loop body runs for every i = 0, 3, .. with i + 2 < len(payload)
PixelsRgb888(ss, total_time, payload) ==
    [k \in 1 .. (Len(payload) \div 3) |->
        LET i == 3 * (k - 1)
        IN  PixelAnn(ss + (i * total_time) \div Len(payload),
                     ss + ((i + 3) * total_time) \div Len(payload),
                     <<"RGB", At(payload, i), At(payload, i + 1), At(payload, i + 2)>>)]

\* pd.py:676-694: the iteration of the loop for index i
Yuv422Group(ss, total_time, payload, i) ==
    IF i + 3 < Len(payload)
    THEN LET pixel_start == ss + (i * total_time) \div Len(payload)
             pixel_mid == ss + ((i + 2) * total_time) \div Len(payload)
             pixel_end == ss + ((i + 4) * total_time) \div Len(payload)
         IN  << PixelAnn(pixel_start, pixel_mid, <<"Y U", At(payload, i), At(payload, i + 1)>>),
                PixelAnn(pixel_mid, pixel_end, <<"Y V", At(payload, i + 2), At(payload, i + 3)>>) >>
    ELSE IF i + 1 < Len(payload)
    THEN LET component == IF (i \div 2) % 2 = 1 THEN "U" ELSE "Y"
         IN  << PixelAnn(ss + (i * total_time) \div Len(payload),
                         ss + ((i + 2) * total_time) \div Len(payload),
                         <<"Y c", At(payload, i), component, At(payload, i + 1)>>) >>
    ELSE << >>

\* for i in range(i, len(payload), 4)
RECURSIVE PixelsYuv422(_, _, _, _)
PixelsYuv422(ss, total_time, payload, i) ==
    IF i >= Len(payload) THEN << >>
    ELSE Yuv422Group(ss, total_time, payload, i)
         \o PixelsYuv422(ss, total_time, payload, i + 4)

\* the annotations decode_pixel_data puts, in order
PixelAnnotations(ss, es, data_type, payload) ==
    LET total_time == es - ss
    IN  IF Len(payload) < 1 THEN << >>
        ELSE IF data_type = CSI2_DT_RAW8 THEN PixelsPerByte(ss, total_time, payload)
        ELSE IF data_type = CSI2_DT_RAW10 THEN PixelsRaw10(ss, total_time, payload)
        ELSE IF data_type = CSI2_DT_RAW16 THEN PixelsRaw16(ss, total_time, payload)
        ELSE IF data_type = CSI2_DT_RGB888 THEN PixelsRgb888(ss, total_time, payload)
        ELSE IF data_type = CSI2_DT_YUV422_8BIT THEN PixelsYuv422(ss, total_time, payload, 0)
        ELSE PixelsPerByte(ss, total_time, payload)

decode_pixel_data(s, ss, es, data_type, payload) ==
    [s EXCEPT !.out_ann = @ \o PixelAnnotations(ss, es, data_type, payload)]

\* ------------------------------------------------------------------------
\* Packet decoding: decode_short_packet, decode_long_packet
\* ------------------------------------------------------------------------
\* DATA_TYPE_NAMES.get(data_type, hex of data_type) (pd.py:82-100): the
\* names are pairwise distinct and none is a hex literal, so a name stands
\* for exactly one data type and is modelled by it.
DtName(data_type) == data_type

\* decode_short_packet_type (pd.py:599-617): the description of the type
ShortPacketKnownTypes == {0, 1, 2, 3} \cup (8 .. 15)

decode_short_packet_type(data_type, data_field) ==
    IF data_type \in ShortPacketKnownTypes
    THEN <<"Short type", data_type, data_field>>
    ELSE <<"Unknown Short", data_type, data_field>>

\* pd.py:583-597: the records of a short packet
PutShortPacket(s, ss, header, data_type, virtual_channel, data_field) ==
    putb(putg(putg(putg(putp(s, ss - 30, ss, "SHORT_PACKET",
                             <<data_type, virtual_channel, data_field>>),
                        ss - 30, ss, 3,
                        <<"Short", decode_short_packet_type(data_type, data_field),
                          virtual_channel>>),
                   ss - 30, ss, 8, <<"DT", DtName(data_type)>>),
              ss - 30, ss, 9, <<"VC", virtual_channel>>),
         ss, ss + 32, header)

\* decode_short_packet (pd.py:571-597)
decode_short_packet(s, ss, header) ==
    IF Len(header) < 4
    THEN putg(s, ss, ss + 32, 7, <<"Short packet too short", Len(header)>>)
    ELSE PutShortPacket(s, ss, header,
                        BitAnd(At(header, 1), 63),
                        BitAnd(Shr(At(header, 1), 6), 3),
                        BitOr(Shl(At(header, 3), 8), At(header, 2)))

\* max(a, b)
Max(a, b) == IF a >= b THEN a ELSE b

\* pd.py:717-719: more than one synchronized lane overrides a lane count of 1
MultiLaneOverride(active_lanes, sync_lanes_detected) ==
    IF active_lanes = 1 /\ sync_lanes_detected > 1
    THEN sync_lanes_detected
    ELSE active_lanes

\* pd.py:714-719: the lane count the timing of a long packet is scaled by
TimingLanes(s) ==
    MultiLaneOverride(
        Max(1, IF s.num_lanes = 0 THEN s.detected_lanes ELSE s.num_lanes),
        Cardinality({l \in Lanes : s.lane_sync_detected[l]}))

\* pd.py:724-729: the header records; hs is the start of the header
PutLongHeader(s, fs, hs, he, ss, data_type, virtual_channel, word_count, payload) ==
    putg(putg(putg(putp(s, fs, ss, "LONG_PACKET",
                        <<data_type, virtual_channel, word_count, payload>>),
                   hs, he, 3, <<"Long", DtName(data_type), virtual_channel, word_count>>),
              hs, he, 8, <<"DT", DtName(data_type)>>),
         hs, he, 9, <<"VC", virtual_channel>>)

\* pd.py:731-735: the payload records and the pixels
PutPayload(s, ps, ss, data_type, payload) ==
    IF Len(payload) > 0
    THEN decode_pixel_data(
             putb(putg(s, ps, ss, 5, <<"Payload", Len(payload)>>), ps, ss, payload),
             ps, ss, data_type, payload)
    ELSE s

\* pd.py:737-742: the footer records
PutFooter(s, footer_start, footer_end, checksum) ==
    IF Len(checksum) > 0
    THEN putb(putp(putg(s, footer_start, footer_end, 6,
                        <<"Footer", Len(checksum), At(checksum, 0), At(checksum, 1)>>),
                   footer_start, footer_end, "FOOTER", checksum),
              footer_start, footer_end, checksum)
    ELSE s

\* pd.py:720-742, with the times per lane of payload, header and footer
PutLongPacket(s, ss, header, payload, checksum, payload_time, header_time, footer_time) ==
    PutFooter(
        PutPayload(
            PutLongHeader(s, ss - (header_time + payload_time) - footer_time,
                          ss - (header_time + payload_time), ss - payload_time, ss,
                          At(header, 0), 0,
                          BitOr(Shl(At(header, 2), 8), At(header, 1)), payload),
            ss - payload_time, ss, At(header, 0), payload),
        ss, ss + footer_time, checksum)

\* pd.py:720-722, for the lane count active_lanes
LongPacketTimed(s, ss, header, payload, checksum, active_lanes) ==
    PutLongPacket(s, ss, header, payload, checksum,
                  (Len(payload) * 8) \div active_lanes,
                  32 \div active_lanes,
                  16 \div active_lanes)

\* decode_long_packet (pd.py:702-742)
decode_long_packet(s, ss, header, payload, checksum) ==
    LongPacketTimed(s, ss, header, payload, checksum, TimingLanes(s))

\* ------------------------------------------------------------------------
\* Packet Assembler & Parser (pd.py:460-551)
\* ------------------------------------------------------------------------
\* HeaderLength counting one checksum byte instead of two
HeaderLength_one_checksum_byte(s, ss, header, data_type, virtual_channel) ==
    IF data_type <= 15
    THEN [self |-> decode_short_packet(s, ss,
                       << At(header, 0), BitOr(Shl(virtual_channel, 6), data_type),
                          At(header, 1), At(header, 2) >>),
          ret |-> 4]
    ELSE [self |-> s,
          ret |-> 4 + BitOr(Shl(At(header, 2), 8), At(header, 1)) + 1]

\* HeaderLength classifying by the low 6 bits of the data ID
HeaderLength_low_six_bits(s, ss, header, data_type, virtual_channel) ==
    IF BitAnd(data_type, 63) <= 15
    THEN [self |-> decode_short_packet(s, ss,
                       << At(header, 0), BitOr(Shl(virtual_channel, 6), data_type),
                          At(header, 1), At(header, 2) >>),
          ret |-> 4]
    ELSE [self |-> s,
          ret |-> 4 + BitOr(Shl(At(header, 2), 8), At(header, 1)) + 2]

\* pd.py:504-524: the header is header, its first byte the data ID and the
\* data type, the virtual channel 0
HeaderLength(s, ss, header, data_type, virtual_channel) ==
    IF data_type <= 15
    THEN [self |-> decode_short_packet(s, ss,
                       << At(header, 0), BitOr(Shl(virtual_channel, 6), data_type),
                          At(header, 1), At(header, 2) >>),
          ret |-> 4]
    ELSE [self |-> s,
          ret |-> 4 + BitOr(Shl(At(header, 2), 8), At(header, 1)) + 2]

\* analyze_packet_header (pd.py:494-524): the object after the call and the
\* expected total packet length returned
analyze_packet_header(s, ss) ==
    IF Len(s.packet_buffer) < 4 THEN [self |-> s, ret |-> 0]
    ELSE HeaderLength(s, ss, SubSeq(s.packet_buffer, 1, 4), At(s.packet_buffer, 0), 0)

\* pd.py:536-551: dispatch of a packet with header header and word count
\* word_count
DispatchPacket(s, ss, header, word_count) ==
    IF Len(s.packet_buffer) >= 4 /\ At(header, 0) > 15
       /\ Len(s.packet_buffer) >= 4 + word_count + 2
    THEN decode_long_packet(s, ss, header,
             SubSeq(s.packet_buffer, 5, 4 + word_count),
             SubSeq(s.packet_buffer, 5 + word_count, 4 + word_count + 2))
    ELSE s

\* pd.py:549-551
ClearPacket(s) ==
    [s EXCEPT !.packet_buffer = << >>, !.packet_state = "SYNC_DETECTED"]

\* process_complete_packet (pd.py:527-551)
process_complete_packet(s, ss) ==
    ClearPacket(
        DispatchPacket(s, ss, SubSeq(s.packet_buffer, 1, 4),
            IF Len(s.packet_buffer) >= 4
            THEN BitOr(Shl(At(s.packet_buffer, 2), 8), At(s.packet_buffer, 1))
            ELSE 0))

\* pd.py:481-492: mark the packet end and drop byte alignment
MarkPacketEnd(s) ==
    [s EXCEPT !.packet_end_detected =
                  [l \in Lanes |-> IF s.byte_synchronized[l] THEN TRUE ELSE @[l]],
              !.packet_buffer = << >>,
              !.expected_packet_length = 0,
              !.sync_detected =
                  [l \in Lanes |-> IF s.byte_synchronized[l] THEN FALSE ELSE @[l]]]

\* pd.py:477-478 without line 479: the state process_complete_packet left
PutPacketComplete_state_left(s, ss) ==
    putp(s, ss - 7, ss + 1, "PACKET_COMPLETE", << >>)

\* pd.py:479-480
PutPacketComplete(s, ss) ==
    putp([s EXCEPT !.packet_state = "IDLE"], ss - 7, ss + 1, "PACKET_COMPLETE", << >>)

\* pd.py:475-492: the packet is complete
CompletePacket(s, ss) ==
    MarkPacketEnd(PutPacketComplete(process_complete_packet(s, ss), ss))

\* pd.py:472-473: r is what analyze_packet_header gave
SetExpectedLength(r) ==
    [r.self EXCEPT !.expected_packet_length = r.ret]

\* pd.py:470-473
CheckHeader(s, ss) ==
    IF Len(s.packet_buffer) = 4
    THEN SetExpectedLength(analyze_packet_header(s, ss))
    ELSE s

\* pd.py:475-492
CheckComplete(s, ss) ==
    IF s.expected_packet_length > 0
       /\ Len(s.packet_buffer) >= s.expected_packet_length
    THEN CompletePacket(s, ss)
    ELSE s

\* process_packet_byte (pd.py:460-492)
process_packet_byte(s, lane, byte_value, ss) ==
    IF s.packet_state = "COLLECTING_PACKET"
    THEN CheckComplete(
             CheckHeader([s EXCEPT !.packet_buffer = Append(@, byte_value)], ss), ss)
    ELSE s

\* ------------------------------------------------------------------------
\* Bit/Byte Deserializer: Decoder.shift_bits (pd.py:423-458)
\* ------------------------------------------------------------------------
\* the local byte_value before any assignment to it
Unbound == -2

\* pd.py:455-456
PutSync(s, lane, byte_value, ss) ==
    putp(putg(s, ss - 7, ss + 1, 14 + lane, <<"SYNC", lane, byte_value>>),
         ss - 7, ss + 1, "SYNC", << >>)

\* pd.py:446-458: the sync check that ends shift_bits; byte_value is the
\* local assigned (or not) at pd.py:433 or pd.py:439
SyncCheck(s, lane, byte_value, ss) ==
    IF s.sync_detected[lane]
    THEN [self |-> s, exc |-> ""]
    ELSE IF byte_value = Unbound
    THEN [self |-> s, exc |-> "UnboundLocalError"]
    ELSE IF byte_value = SYNC_MARKER
    THEN [self |-> PutSync([s EXCEPT !.sync_detected[lane] = TRUE,
                                     !.lane_sync_detected[lane] = TRUE,
                                     !.byte_synchronized[lane] = TRUE,
                                     !.bit_counters[lane] = 0,
                                     !.packet_state = "COLLECTING_PACKET",
                                     !.packet_buffer = << >>],
                           lane, byte_value, ss),
          exc |-> ""]
    ELSE [self |-> s, exc |-> ""]

\* pd.py:438-444: after sync, a byte every 8 bits
PostSyncByte(s, lane, byte_value, ss) ==
    SyncCheck(process_packet_byte(
                  [s EXCEPT !.bit_shifters[lane] = 0, !.bit_counters[lane] = 0],
                  lane, byte_value, ss),
              lane, byte_value, ss)

\* pd.py:432-458, after the bit has been shifted in
ShiftedBit(s, lane, ss) ==
    IF ~s.sync_detected[lane]
    THEN SyncCheck(s, lane, BitAnd(s.bit_shifters[lane], 255), ss)
    ELSE IF s.bit_counters[lane] >= 8
    THEN PostSyncByte(s, lane, BitAnd(s.bit_shifters[lane], 255), ss)
    ELSE SyncCheck(s, lane, Unbound, ss)

\* shift_bits(lane, bit_value, ss); exc names the exception the call raises
shift_bits(s, lane, bit_value, ss) ==
    IF lane >= 4 THEN [self |-> s, exc |-> ""]
    ELSE ShiftedBit([s EXCEPT !.bit_shifters[lane] = BitOr(Shr(@, 1), Shl(bit_value, 7)),
                              !.bit_counters[lane] = @ + 1],
                    lane, ss)

\* ------------------------------------------------------------------------
\* Main loop: Decoder.decode (pd.py:763-805)
\* ------------------------------------------------------------------------
\* pd.py:796-798: s is the object after update_lane_state
ShiftIfHighSpeed(s, lane, lane_state, data_p, data_n, ss) ==
    IF lane_state \in {LANE_STATE_HS, LANE_STATE_THS_SETTLE}
    THEN IF data_n = None
         THEN \* data_p > data_n compares an int with None
              [self |-> s, exc |-> "TypeError"]
         ELSE shift_bits(s, lane, IF data_p > data_n THEN 1 ELSE 0, ss)
    ELSE [self |-> s, exc |-> ""]

\* pd.py:793-798: d is what detect_lane_state gave
UpdateAndShift(d, lane, data_p, data_n, ss) ==
    ShiftIfHighSpeed(update_lane_state(d.self, lane, d.ret, ss),
                     lane, d.ret, data_p, data_n, ss)

\* a variant that reads the pins of a lane that is not connected as 0
DecodeLane_absent_read_as_low(s, lane, data_p, data_n, ss) ==
    UpdateAndShift(detect_lane_state(s, lane, IF data_p = None THEN 0 ELSE data_p,
                                     IF data_p = None THEN 0 ELSE data_n),
                   lane, IF data_p = None THEN 0 ELSE data_p,
                   IF data_p = None THEN 0 ELSE data_n, ss)

\* pd.py:789-800: the body of `for lane in range(4)` for one lane, given the
\* pin values data_p and data_n of that lane
DecodeLane(s, lane, data_p, data_n, ss) ==
    IF data_p # None
    THEN UpdateAndShift(detect_lane_state(s, lane, data_p, data_n),
                        lane, data_p, data_n, ss)
    ELSE [self |-> s, exc |-> ""]

\* lanes lane .. 3 of the for loop; an exception ends the loop
RECURSIVE DecodeLanes(_, _, _, _)
\* r is the outcome of the loop body for lane
NextLane(r, lane, pins, ss) ==
    IF r.exc # "" THEN r
    ELSE DecodeLanes(r.self, lane + 1, pins, ss)

DecodeLanes(s, lane, pins, ss) ==
    IF lane > 3 THEN [self |-> s, exc |-> ""]
    ELSE NextLane(DecodeLane(s, lane, pins[lane].p, pins[lane].n, ss), lane, pins, ss)

\* one iteration of `while True`: wait() returns the pins of the sample at
\* samplenum; the outputs of the previous iteration have been delivered
DecodeIteration(s, samplenum, pins) ==
    DecodeLanes([s EXCEPT !.samplenum = samplenum,
                          !.out_python = << >>,
                          !.out_ann = << >>,
                          !.out_binary = << >>],
                0, pins, samplenum)

\* ------------------------------------------------------------------------
\* The sample source
\* ------------------------------------------------------------------------
\* the pins of one data lane in one sample
Pin(p, n) == [p |-> p, n |-> n]
LP11 == Pin(1, 1)
LP00 == Pin(0, 0)
LP01 == Pin(0, 1)
LP10 == Pin(1, 0)
\* a high-speed bit on a differential pair: p carries the bit, n its inverse
Diff(b) == Pin(b, 1 - b)

\* the 8 bits of a byte, least significant first, one reading per bit
BitsOf(byte) == [i \in 1 .. 8 |-> Diff(Shr(byte, i - 1) % 2)]

RECURSIVE Ser(_)
Ser(bytes) == IF bytes = << >> THEN << >> ELSE BitsOf(Head(bytes)) \o Ser(Tail(bytes))

\* How a lane is wired: both pins, the positive pin only, or not at all
WiringModes == {"diff", "single", "absent"}

\* what decode() sees of a reading r on a lane wired in mode w
Wired(w, r) ==
    IF w = "diff" THEN r
    ELSE IF w = "single" THEN Pin(r.p, None)
    ELSE Pin(None, None)

\* Bounds of the exploration
MaxAborts == 1
MaxLen == 8
MaxTransitions == 2
MaxResets == 1

SampleNums == {0}

\* The bursts the sample source may send on a lane that is in LP-00: the sync
\* byte followed by a short packet, or by a long packet with one payload
\* byte and two checksum bytes
Frames ==
    { Ser(<<SYNC_MARKER, 2, 1, 0, 7>>),
      Ser(<<SYNC_MARKER, CSI2_DT_RAW8, 1, 0, 0, 16, 170, 85>>) }

\* The set-ups explored: the wiring of the four data lanes and the value of
\* the 'lanes' option
Setups ==
    { [wiring |-> [l \in Lanes |-> IF l = 0 THEN "diff" ELSE "absent"], lanes |-> 0],
      [wiring |-> [l \in Lanes |-> IF l = 0 THEN "single" ELSE "absent"], lanes |-> 0],
      [wiring |-> [l \in Lanes |-> IF l = 2 THEN "diff" ELSE "absent"], lanes |-> 2] }

\* The bytes a scripted run draws its free packet bytes from
ByteSamples == {0, 1, SYNC_MARKER, 255}

\* What a scripted run sends on lane 0 before the packet under test; every
\* history leaves the lane in THS-SETTLE:
\*   fresh    the lane has carried nothing before
\*   trailed  an earlier short packet, followed by a trailing bit and LP-11
\*   direct   an earlier short packet whose last bit was followed by LP-11
\*   cut      an earlier burst that LP-11 cut off after its first byte
Histories == {"fresh", "trailed", "direct", "cut"}

HistoryOf(h) ==
    IF h = "fresh" THEN <<LP11, LP00, LP01>>
    ELSE IF h = "trailed"
    THEN <<LP11, LP00>> \o Ser(<<SYNC_MARKER, 2, 0, 0, 0>>) \o <<Diff(0), LP11, LP00, LP01>>
    ELSE IF h = "direct"
    THEN <<LP11, LP00>> \o Ser(<<SYNC_MARKER, 2, 0, 0, 0>>) \o <<LP11, LP00, LP01>>
    ELSE <<LP11, LP00>> \o Ser(<<SYNC_MARKER, 2>>) \o <<LP11, LP00, LP01>>

\* the largest word count of a scripted long packet
MaxW == 3

\* the payload of a scripted long packet of word count w; its 2nd byte is
\* the sync marker
PayloadOf(w) == [i \in 1 .. w |-> IF i = 2 THEN SYNC_MARKER ELSE (16 * i) % 256]

\* The data IDs of the scripted headers: both sides of the short/long
\* boundary 0x0F, a data ID whose low 6 bits are below it (0x42), the ends
HeaderIds == {0, 15, 16, 66, 255}

\* The scripted runs: a short packet [0x02, lo, hi, ecc] or a long packet
\* [0x2B, w, 0, 0, payload, 0xAA, c2] sent after the sync byte into a lane in
\* THS-SETTLE, the end-to-end long packet, the headers [id, lo, hi, 0]
\* followed by three more bytes, and the short packet [0x02, 1, 0, 7] after
\* a sync byte of which only the bits from bit `at` on are sent (partial) or
\* which is interrupted by LP-11 and LP-00 before bit `at` (resumed)
Scenarios ==
    { [kind |-> "short", history |-> h, bytes |-> <<2, lo, hi, ecc>>] :
          h \in Histories, lo \in ByteSamples, hi \in ByteSamples, ecc \in ByteSamples }
    \cup
    { [kind |-> "long", history |-> h,
       bytes |-> <<CSI2_DT_RAW10, w, 0, 0>> \o PayloadOf(w) \o <<170, c2>>] :
          h \in Histories, w \in 0 .. MaxW, c2 \in ByteSamples }
    \cup
    { [kind |-> "e2e", history |-> "none",
       bytes |-> <<CSI2_DT_RAW8, 4, 0, 0, 16, 32, 48, 64, c1, c2>>] :
          c1 \in ByteSamples, c2 \in ByteSamples }
    \cup
    { [kind |-> "classify", history |-> "fresh",
       bytes |-> <<id, w[1], w[2], 0, 16, 170, 85>>] :
          id \in HeaderIds, w \in {<<1, 0>>, <<0, 1>>} }
    \cup
    { [kind |-> k, history |-> "none", at |-> m, bytes |-> <<2, 1, 0, 7>>] :
          k \in {"partial", "resumed"}, m \in 1 .. 7 }

\* the samples of lane 0 before the sync byte of the packet under test
Lead(sc) ==
    IF sc.kind \in {"e2e", "partial", "resumed"} THEN <<LP11, LP00>>
    ELSE HistoryOf(sc.history)

\* the bits of the sync byte as a scripted run sends them
SyncBits(sc) ==
    IF sc.kind = "partial" THEN SubSeq(BitsOf(SYNC_MARKER), sc.at + 1, 8)
    ELSE IF sc.kind = "resumed"
    THEN SubSeq(BitsOf(SYNC_MARKER), 1, sc.at) \o <<LP11, LP00>>
         \o SubSeq(BitsOf(SYNC_MARKER), sc.at + 1, 8)
    ELSE BitsOf(SYNC_MARKER)

\* the whole script of lane 0: lead, sync byte, packet, return to LP-11
ScriptOf(sc) == Lead(sc) \o SyncBits(sc) \o Ser(sc.bytes) \o <<LP11>>

\* the sample number (1-based) of the last bit of post-sync byte k
ByteEnd(sc, k) == Len(Lead(sc)) + 8 + 8 * k

VARIABLES
    self,          \* the Decoder object
    exc,           \* the exception that ended decode(), "" while it runs
    wiring,        \* how each data lane is wired
    lanes_option,  \* the 'lanes' option of the run
    pins,          \* the pins of the latest sample, as decode() saw them
    tx,            \* per lane, the readings the source still has to send
    aborts,        \* bursts cut off so far
    resets,        \* reset() calls so far
    err_due,       \* per lane: dropped to LP-11 mid-packet, no ERROR put since
    scenario,      \* the scripted run, [kind |-> "free"] for the free source
    log,           \* scripted run: the records put on OUTPUT_PYTHON and the
                   \* pixel annotations, each with the sample it was put at
    solo           \* two-lane run: a second Decoder object that is given the
                   \* readings of lane 0 only

vars == <<self, exc, wiring, lanes_option, pins, tx, aborts, resets, err_due, scenario, log,
          solo>>

NoPins == [l \in Lanes |-> Pin(None, None)]

Shifting(lane) == self.lane_states[lane] \in {LANE_STATE_HS, LANE_STATE_THS_SETTLE}

\* the positions in a burst at which the source may cut it off
CanAbort(lane) == Len(tx[lane]) % 8 = 5

\* The choices of the source for one lane: [r |-> reading, tx |-> rest of the
\* burst, ab |-> 1 if a burst was cut off]
LaneChoices(lane) ==
    IF wiring[lane] = "absent" THEN {[r |-> LP11, tx |-> << >>, ab |-> 0]}
    ELSE IF tx[lane] # << >>
    THEN {[r |-> Head(tx[lane]), tx |-> Tail(tx[lane]), ab |-> 0]}
         \cup (IF CanAbort(lane) THEN {[r |-> LP11, tx |-> << >>, ab |-> 1]} ELSE {})
    ELSE IF Shifting(lane) THEN {[r |-> LP11, tx |-> << >>, ab |-> 0]}
    ELSE IF self.lane_states[lane] = LANE_STATE_LP_00
    THEN {[r |-> x, tx |-> << >>, ab |-> 0] : x \in {LP11, LP00}}
         \cup {[r |-> Head(f), tx |-> Tail(f), ab |-> 0] : f \in Frames}
    ELSE {[r |-> x, tx |-> << >>, ab |-> 0] : x \in {LP11, LP00, LP01, LP10}}

\* the records of type ptype in a sequence of OUTPUT_PYTHON records
OfType(out, ptype) == SelectSeq(out, LAMBDA e : e.ptype = ptype)

\* lane reads (1,1) in the sample `in` while a packet is being collected on
\* it: sync seen, packet not complete, lane not yet back in LP-11
DropsMidPacket(lane, in) ==
    /\ in[lane] = LP11
    /\ self.lane_states[lane] # LANE_STATE_LP_11
    /\ self.sync_detected[lane]
    /\ self.packet_state = "COLLECTING_PACKET"

ErrDue(new_self, in) ==
    [l \in Lanes |->
        IF OfType(new_self.out_python, "ERROR") # << >> THEN FALSE
        ELSE IF DropsMidPacket(l, in) THEN TRUE
        ELSE err_due[l]]

Init ==
    /\ \E u \in Setups :
          /\ self = start(NewDecoder, u.lanes)
          /\ wiring = u.wiring
          /\ lanes_option = u.lanes
    /\ exc = ""
    /\ pins = NoPins
    /\ tx = [l \in Lanes |-> << >>]
    /\ aborts = 0
    /\ resets = 0
    /\ err_due = [l \in Lanes |-> FALSE]
    /\ scenario = [kind |-> "free"]
    /\ log = << >>
    /\ solo = NewDecoder

\* the decoder's variables after a loop iteration on the sample `in` with
\* outcome r
Decoded(r, in) ==
    /\ self' = r.self
    /\ exc' = r.exc
    /\ pins' = in
    /\ err_due' = ErrDue(r.self, in)

\* the exploration keeps the estimator's counters and the buffer bounded
InBounds(r) ==
    /\ \A l \in Lanes : r.self.lane_transition_count[l] <= MaxTransitions
    /\ Len(r.self.packet_buffer) <= MaxLen

\* the sample `in` at sample number samplenum
DecodeSample(samplenum, in) ==
    /\ samplenum >= self.samplenum
    /\ InBounds(DecodeIteration(self, samplenum, in))
    /\ Decoded(DecodeIteration(self, samplenum, in), in)

\* the source's choices c for the four lanes
DecodeChoices(samplenum, c) ==
    /\ aborts + c[1].ab + c[2].ab + c[3].ab + c[4].ab <= MaxAborts
    /\ DecodeSample(samplenum, [l \in Lanes |-> Wired(wiring[l], c[l + 1].r)])
    /\ tx' = [l \in Lanes |-> c[l + 1].tx]
    /\ aborts' = aborts + c[1].ab + c[2].ab + c[3].ab + c[4].ab

\* One iteration of the decode() loop on the next sample of the free source
Decode ==
    /\ exc = ""
    /\ \E samplenum \in SampleNums :
       \E c0 \in LaneChoices(0), c1 \in LaneChoices(1),
          c2 \in LaneChoices(2), c3 \in LaneChoices(3) :
          DecodeChoices(samplenum, <<c0, c1, c2, c3>>)
    /\ UNCHANGED <<wiring, lanes_option, resets, scenario, log, solo>>

\* A new run on the same object: the host calls reset() and start()
Reset ==
    /\ resets < MaxResets
    /\ self' = start(reset(self), lanes_option)
    /\ exc' = ""
    /\ pins' = NoPins
    /\ tx' = [l \in Lanes |-> << >>]
    /\ resets' = resets + 1
    /\ err_due' = [l \in Lanes |-> FALSE]
    /\ UNCHANGED <<wiring, lanes_option, aborts, scenario, log, solo>>

Next == Decode \/ Reset

Spec == Init /\ [][Next]_vars

\* ------------------------------------------------------------------------
\* Scripted runs: a new decoder, lane 0 wired as a differential pair, fed
\* the script of the scenario one sample per loop iteration, sample k of the
\* script at sample number k
\* ------------------------------------------------------------------------
\* the entries a loop iteration adds to the log
Logged(s) ==
    [i \in 1 .. Len(s.out_python) |->
        [at |-> s.samplenum, ptype |-> s.out_python[i].ptype,
         pdata |-> s.out_python[i].pdata]]
    \o
    LET px == SelectSeq(s.out_ann, LAMBDA a : a.cls = 18)
    IN  [i \in 1 .. Len(px) |-> [at |-> s.samplenum, ptype |-> "pixel", pdata |-> px[i].text]]

ScenarioInit ==
    /\ self = start(NewDecoder, 0)
    /\ wiring = [l \in Lanes |-> IF l = 0 THEN "diff" ELSE "absent"]
    /\ lanes_option = 0
    /\ exc = ""
    /\ pins = NoPins
    /\ scenario \in Scenarios
    /\ tx = [l \in Lanes |-> IF l = 0 THEN ScriptOf(scenario) ELSE << >>]
    /\ aborts = 0
    /\ resets = 0
    /\ err_due = [l \in Lanes |-> FALSE]
    /\ log = << >>
    /\ solo = NewDecoder

\* the decoder's variables and the log after a loop iteration on the sample
\* `in` with outcome r
Replayed(r, in) ==
    /\ Decoded(r, in)
    /\ log' = log \o Logged(r.self)

\* the sample `in` at the next sample number
ReplaySample(in) ==
    Replayed(DecodeIteration(self, self.samplenum + 1, in), in)

\* One iteration of the decode() loop on the next sample of the script
Replay ==
    /\ exc = ""
    /\ tx[0] # << >>
    /\ ReplaySample([l \in Lanes |-> Wired(wiring[l], IF l = 0 THEN Head(tx[0]) ELSE LP11)])
    /\ tx' = [tx EXCEPT ![0] = Tail(@)]
    /\ UNCHANGED <<wiring, lanes_option, aborts, resets, scenario, solo>>

ScenarioNext == Replay

Scenario == ScenarioInit /\ [][ScenarioNext]_vars

\* ------------------------------------------------------------------------
\* The two-lane run: lanes 0 and 1 are wired differentially and each carries
\* a burst of its own; lane 1 starts its burst some samples after lane 0.  A
\* second Decoder object is given the same samples with lane 1 left out.
\* ------------------------------------------------------------------------
\* the largest delay, in samples, of the burst of lane 1
MaxSkew == 40

\* the packet of lane 0: a short packet or a long packet of one payload byte
PacketsA == { <<2, 1, 0, 7>>, <<CSI2_DT_RAW8, 1, 0, 0, 16, 170, 85>> }

\* the packet of lane 1: a short packet, or nothing (the lane stays in LP-11)
PacketsB == { <<3, 5, 0, 9>>, << >> }

Pairs ==
    { [kind |-> "pair", skew |-> d, a |-> a, b |-> b] :
          d \in 0 .. MaxSkew, a \in PacketsA, b \in PacketsB }

\* a whole burst: LP-11, LP-00, sync byte, packet, a trailing bit, LP-11
Burst(bytes) == <<LP11, LP00>> \o Ser(<<SYNC_MARKER>> \o bytes) \o <<Diff(0), LP11>>

\* the script of a lane in the two-lane run sc
PairScript(sc, lane) ==
    IF lane = 0 THEN Burst(sc.a)
    ELSE IF lane = 1 /\ sc.b # << >> THEN [i \in 1 .. sc.skew |-> LP11] \o Burst(sc.b)
    ELSE << >>

PairWiring == [l \in Lanes |-> IF l \in {0, 1} THEN "diff" ELSE "absent"]

TwoLaneInit ==
    /\ self = start(NewDecoder, 0)
    /\ solo = start(NewDecoder, 0)
    /\ wiring = PairWiring
    /\ lanes_option = 0
    /\ exc = ""
    /\ pins = NoPins
    /\ scenario \in Pairs
    /\ tx = [l \in Lanes |-> PairScript(scenario, l)]
    /\ aborts = 0
    /\ resets = 0
    /\ err_due = [l \in Lanes |-> FALSE]
    /\ log = << >>

\* the reading of a lane on the next sample: the next of its script, LP-11
\* once the script is over
NextReading(lane) == IF tx[lane] # << >> THEN Head(tx[lane]) ELSE LP11

\* the sample `in` with every lane but lane 0 left out
Lane0Only(in) == [l \in Lanes |-> IF l = 0 THEN in[l] ELSE Pin(None, None)]

\* the sample `in` at the next sample number, given to both objects
ReplayBoth(in) ==
    /\ Replayed(DecodeIteration(self, self.samplenum + 1, in), in)
    /\ solo' = DecodeIteration(solo, self.samplenum + 1, Lane0Only(in)).self

\* One iteration of the decode() loop on the next sample of the two scripts
ReplayPair ==
    /\ exc = ""
    /\ \E l \in Lanes : tx[l] # << >>
    /\ ReplayBoth([l \in Lanes |-> Wired(wiring[l], NextReading(l))])
    /\ tx' = [l \in Lanes |-> IF tx[l] # << >> THEN Tail(tx[l]) ELSE << >>]
    /\ UNCHANGED <<wiring, lanes_option, aborts, resets, scenario>>

TwoLaneNext == ReplayPair

TwoLane == TwoLaneInit /\ [][TwoLaneNext]_vars

\* ------------------------------------------------------------------------
\* Pixel unpacking on its own: decode_pixel_data applied to payloads that
\* grow byte by byte, for each data type
\* ------------------------------------------------------------------------
\* the longest payload unpacked
MaxPayload == 6

\* a data type decode_pixel_data has no branch for
CSI2_DT_RAW12 == 44

PixelTypes ==
    {CSI2_DT_RAW8, CSI2_DT_RAW10, CSI2_DT_RAW16, CSI2_DT_RGB888, CSI2_DT_YUV422_8BIT,
     CSI2_DT_RAW12}

\* the payload bytes: 0x00, 0xFF, and 0x1B whose four 2-bit fields all differ
PixelBytes == {0, 27, 255}

PixelsInit ==
    /\ self = start(NewDecoder, 0)
    /\ solo = NewDecoder
    /\ wiring = [l \in Lanes |-> "absent"]
    /\ lanes_option = 0
    /\ exc = ""
    /\ pins = NoPins
    /\ scenario \in {[kind |-> "pixels", data_type |-> dt, bytes |-> << >>] : dt \in PixelTypes}
    /\ tx = [l \in Lanes |-> << >>]
    /\ aborts = 0
    /\ resets = 0
    /\ err_due = [l \in Lanes |-> FALSE]
    /\ log = << >>

\* decode_pixel_data on a payload that takes 8 samples per byte
UnpackPayload(data_type, payload) ==
    /\ scenario' = [scenario EXCEPT !.bytes = payload]
    /\ self' = decode_pixel_data([self EXCEPT !.out_ann = << >>], 0, 8 * Len(payload),
                                 data_type, payload)

\* One call of decode_pixel_data, on the payload so far and one more byte
Unpack ==
    /\ Len(scenario.bytes) < MaxPayload
    /\ \E b \in PixelBytes : UnpackPayload(scenario.data_type, Append(scenario.bytes, b))
    /\ UNCHANGED <<exc, wiring, lanes_option, pins, tx, aborts, resets, err_due, log, solo>>

PixelsNext == Unpack

Pixels == PixelsInit /\ [][PixelsNext]_vars

\* ------------------------------------------------------------------------
\* Lane activity within one run: update_lane_state called, as decode() calls
\* it, with the states of lanes 0 and 1 at sample numbers that never go
\* back; every call counts the entry into HS and runs the estimator as the
\* code does
\* ------------------------------------------------------------------------
\* the lanes whose state is reported; every state is LP-11 or HS; the
\* 'lanes' option of the run is 0 (auto-detect) or 2
ActivityLanes == {0, 1}

\* the sample number stays or advances by the activity duration
MaxActivityTicks == 1

\* the most entries into HS of one lane
MaxEntries == 20

ActivityInit ==
    /\ \E o \in {0, 2} :
          /\ self = start(NewDecoder, o)
          /\ lanes_option = o
    /\ solo = NewDecoder
    /\ wiring = [l \in Lanes |-> IF l \in ActivityLanes THEN "diff" ELSE "absent"]
    /\ exc = ""
    /\ pins = NoPins
    /\ scenario = [kind |-> "activity"]
    /\ tx = [l \in Lanes |-> << >>]
    /\ aborts = 0
    /\ resets = 0
    /\ err_due = [l \in Lanes |-> FALSE]
    /\ log = << >>

\* the decoder and the log of LANE_COUNT records after a call that gave r
Updated(r) ==
    /\ r.lane_transition_count[0] <= MaxEntries
    /\ r.lane_transition_count[1] <= MaxEntries
    /\ self' = r
    /\ log' = log \o Logged([r EXCEPT !.out_python = OfType(r.out_python, "LANE_COUNT"),
                                       !.out_ann = << >>])

\* pd.py:793: one call of update_lane_state from the loop of decode()
UpdateLane ==
    /\ \E lane \in ActivityLanes, new_state \in {LANE_STATE_LP_11, LANE_STATE_HS},
          ss \in {self.samplenum, self.samplenum + self.lane_activity_duration} :
          /\ ss <= MaxActivityTicks * self.lane_activity_duration
          /\ Updated(update_lane_state([self EXCEPT !.samplenum = ss,
                                                    !.out_python = << >>,
                                                    !.out_ann = << >>,
                                                    !.out_binary = << >>],
                                       lane, new_state, ss))
    /\ UNCHANGED <<exc, wiring, lanes_option, pins, tx, aborts, resets, err_due, scenario, solo>>

ActivityNext == UpdateLane

Activity == ActivityInit /\ [][ActivityNext]_vars

\* ------------------------------------------------------------------------
\* The Lane-Count Estimator on its own: detect_active_lanes run on a decoder
\* whose transition counters, activity start times and sample number are
\* those that entries into HS and the passing of samples leave behind
\* ------------------------------------------------------------------------
\* the lanes that show activity
EstimatorLanes == {0, 1}

\* the sample number advances in steps of half the activity duration
TickSamples == 2500
MaxTicks == 4

\* the most runs of the estimator between two changes of its inputs
MaxRuns == 3

EstimatorInit ==
    /\ self = start(NewDecoder, 0)
    /\ solo = NewDecoder
    /\ wiring = [l \in Lanes |-> IF l \in EstimatorLanes THEN "diff" ELSE "absent"]
    /\ lanes_option = 0
    /\ exc = ""
    /\ pins = NoPins
    /\ scenario = [kind |-> "estimator", runs |-> 0, before |-> 0]
    /\ tx = [l \in Lanes |-> << >>]
    /\ aborts = 0
    /\ resets = 0
    /\ err_due = [l \in Lanes |-> FALSE]
    /\ log = << >>

\* the inputs of the estimator changed: no run on them yet
InputsChanged ==
    /\ scenario' = [scenario EXCEPT !.runs = 0]
    /\ UNCHANGED <<exc, wiring, lanes_option, pins, tx, aborts, resets, err_due, log, solo>>

\* pd.py:376-381: a lane has entered HS as many times again as the
\* detection threshold
Enters ==
    /\ \E lane \in EstimatorLanes :
          /\ self.lane_transition_count[lane] < 2 * self.lane_detection_threshold
          /\ self' = NoteActivityStart(
                         [self EXCEPT !.lane_transition_count[lane] =
                                          @ + self.lane_detection_threshold],
                         lane, self.samplenum)
    /\ InputsChanged

\* samples pass
Passes ==
    /\ self.samplenum < MaxTicks * TickSamples
    /\ self' = [self EXCEPT !.samplenum = @ + TickSamples]
    /\ InputsChanged

\* the decoder and the log after a run of the estimator that gave r
Estimated(r) ==
    /\ self' = r
    /\ log' = log \o Logged(r)

\* One run of detect_active_lanes
Estimate ==
    /\ scenario.runs < MaxRuns
    /\ Estimated(detect_active_lanes([self EXCEPT !.out_python = << >>]))
    /\ scenario' = [scenario EXCEPT !.runs = @ + 1, !.before = self.detected_lanes]
    /\ UNCHANGED <<exc, wiring, lanes_option, pins, tx, aborts, resets, err_due, solo>>

EstimatorNext == Enters \/ Passes \/ Estimate

Estimator == EstimatorInit /\ [][EstimatorNext]_vars

\* ------------------------------------------------------------------------
\* Properties
\* ------------------------------------------------------------------------
\* the SYNC annotation of a lane was put in the latest loop iteration
SyncPut(lane) == \E i \in 1 .. Len(self.out_ann) : self.out_ann[i].cls = 14 + lane

\* C1: immediately after a sample on which a lane reads (1,1), the lane's
\* state is LP-11 and its flag sync_detected, the one shift_bits consults,
\* is false.
C1_Lp11ClearsSync ==
    \A l \in Lanes :
        pins[l] = LP11 =>
            self.lane_states[l] = LANE_STATE_LP_11 /\ ~self.sync_detected[l]

\* C2: a long packet with word count W in its header completes on the byte
\* that makes the buffer 4 + W + 2 bytes long, never on an earlier or a later
\* one; the completing step puts one LONG_PACKET record whose payload is
\* bytes 4 .. 4+W-1 of the packet and one FOOTER record with the 2 bytes
\* that follow.
LongHeader(buf) == Len(buf) >= 4 /\ buf[1] > 15
WordCount(buf) == buf[2] + 256 * buf[3]

Done == tx[0] = << >>

\* the log entries of one type
Entries(ptype) == SelectSeq(log, LAMBDA e : e.ptype = ptype)

\* C3: the sync byte and [0x02, dataLow, dataHigh, ecc] serialised into a
\* lane in THS-SETTLE give exactly one SHORT_PACKET record with data type
\* 0x02 and data (dataHigh << 8) | dataLow, put on the last bit of the 4th
\* post-sync byte, and the packet completes on that bit.
C3_ShortPacketRoundTrip ==
    (scenario.kind = "short" /\ Done) =>
        LET from == Len(Lead(scenario))
            short == SelectSeq(log, LAMBDA e : e.ptype = "SHORT_PACKET" /\ e.at > from)
            complete == SelectSeq(log, LAMBDA e : e.ptype = "PACKET_COMPLETE" /\ e.at > from)
        IN  /\ Len(short) = 1
            /\ short[1].pdata = <<2, 0, scenario.bytes[3] * 256 + scenario.bytes[2]>>
            /\ short[1].at = ByteEnd(scenario, 4)
            /\ Len(complete) = 1
            /\ complete[1].at = ByteEnd(scenario, 4)

\* C4: the end-to-end run LP11, LP00, sync byte, header [0x2A, 4, 0, 0],
\* payload [0x10, 0x20, 0x30, 0x40], two checksum bytes, LP11 gives exactly
\* one SYNC, one LONG_PACKET (type 0x2A, word count 4, that payload), the
\* four pixel samples in order, one FOOTER, and LP-11 as last LANE_STATE.
C4_EndToEndLongPacket ==
    (scenario.kind = "e2e" /\ Done) =>
        LET lane_state == Entries("LANE_STATE")
        IN  /\ Len(Entries("SYNC")) = 1
            /\ Len(Entries("LONG_PACKET")) = 1
            /\ Entries("LONG_PACKET")[1].pdata = <<CSI2_DT_RAW8, 0, 4, <<16, 32, 48, 64>>>>
            /\ [i \in 1 .. Len(Entries("pixel")) |-> Entries("pixel")[i].pdata]
                   = << <<"X2", 16>>, <<"X2", 32>>, <<"X2", 48>>, <<"X2", 64>> >>
            /\ Len(Entries("FOOTER")) = 1
            /\ lane_state # << >>
            /\ lane_state[Len(lane_state)].pdata = <<0, LANE_STATE_LP_11>>

\* C5: when a lane has returned to LP-11 its bit counter is 0 and its shift
\* register holds no bit shifted before.
C5_Lp11ResetsFraming ==
    \A l \in Lanes :
        pins[l] = LP11 => self.bit_counters[l] = 0 /\ self.bit_shifters[l] = 0

\* C6: when a lane has returned to LP-11 the packet buffer holds no byte
\* received before, so none can be part of a packet dispatched afterwards
\* (one lane is wired in every set-up explored).
C6_Lp11DiscardsBuffer ==
    \A l \in Lanes : pins[l] = LP11 => self.packet_buffer = << >>

\* C7: after a lane dropped to LP-11 in the middle of a packet, no SYNC of
\* that lane is put before an ERROR record has been put.
C7_ErrorBeforeNextSync == \A l \in Lanes : ~(err_due[l] /\ SyncPut(l))

\* C8: every iteration of the decode() loop completes without raising,
\* whether a lane is absent, single-ended or differential.
C8_LoopNeverRaises == exc = ""

\* the <ptype> values of the OUTPUT_PYTHON format (pd.py:22-47)
DocumentedTypes ==
    {"SOT", "EOT", "SHORT_PACKET", "LONG_PACKET", "PAYLOAD", "FOOTER", "SYNC",
     "ERROR", "LANE_STATE", "LANE_COUNT"}

\* C9: every record put on OUTPUT_PYTHON has a documented type.
C9_OnlyDocumentedTypes ==
    \A i \in 1 .. Len(self.out_python) : self.out_python[i].ptype \in DocumentedTypes

\* reset() and start() have just run on an object that decoded samples before
JustReset == resets > 0 /\ pins = NoPins

\* the samples that can follow: any low-power reading on the wired lanes
NextSamples ==
    { [l \in Lanes |-> Wired(wiring[l], x)] : x \in {LP11, LP00, LP01, LP10} }

\* what a loop iteration shows: lane states, records and annotations put,
\* and the exception raised
Shown(r) == <<r.self.lane_states, r.self.out_python, r.self.out_ann, r.exc>>

\* C10: after reset() the object decodes the next sample as a newly
\* constructed decoder does: same lane states, same events.
C10_ResetIsFresh ==
    JustReset =>
        \A in \in NextSamples :
            Shown(DecodeIteration(self, 0, in))
                = Shown(DecodeIteration(start(NewDecoder, lanes_option), 0, in))

\* both scripts of a two-lane run are over
PairDone == \A l \in Lanes : tx[l] = << >>

\* the packet record that the bytes of one packet stand for (pd.py:571-597,
\* pd.py:702-742)
PacketRecord(bytes) ==
    IF bytes[1] <= 15
    THEN [ptype |-> "SHORT_PACKET", pdata |-> <<bytes[1], 0, bytes[3] * 256 + bytes[2]>>]
    ELSE [ptype |-> "LONG_PACKET",
          pdata |-> <<bytes[1], 0, bytes[3] * 256 + bytes[2],
                      SubSeq(bytes, 5, 4 + bytes[3] * 256 + bytes[2])>>]

\* the packet records of the log
PacketsLogged ==
    LET pk == SelectSeq(log, LAMBDA e : e.ptype \in {"SHORT_PACKET", "LONG_PACKET"})
    IN  [i \in 1 .. Len(pk) |-> [ptype |-> pk[i].ptype, pdata |-> pk[i].pdata]]

\* C11: packet assembly is per lane: when lane 0 and lane 1 each carry a
\* packet, the packets dispatched are exactly the packet of lane 0 and the
\* packet of lane 1, each made of the post-sync bytes of its own lane only.
C11_AssemblyIsPerLane ==
    (scenario.kind = "pair" /\ PairDone) =>
        LET sent == {PacketRecord(b) : b \in {scenario.a, scenario.b} \ {<< >>}}
        IN  /\ {PacketsLogged[i] : i \in 1 .. Len(PacketsLogged)} = sent
            /\ Len(PacketsLogged) = Cardinality(sent)

\* the LANE_STATE records of one lane among the records a loop iteration put
LaneStateEvents(s, lane) ==
    SelectSeq(s.out_python, LAMBDA e : e.ptype = "LANE_STATE" /\ e.pdata[1] = lane)

\* C12: lanes are independent: after every sample of the two-lane run, the
\* state of lane 0, its LANE_STATE records and its flag sync_detected are
\* those of the run that gives lane 0 the same readings and leaves lane 1
\* out; a packet completing on lane 1 moves lane 0 nowhere.
C12_LanesAreIndependent ==
    scenario.kind = "pair" =>
        /\ self.lane_states[0] = solo.lane_states[0]
        /\ LaneStateEvents(self, 0) = LaneStateEvents(solo, 0)
        /\ self.sync_detected[0] = solo.sync_detected[0]

\* the texts of the pixel annotations the latest call put, in order
PixelTexts ==
    LET px == SelectSeq(self.out_ann, LAMBDA a : a.cls = 18)
    IN  [i \in 1 .. Len(px) |-> px[i].text]

\* bytes per group and samples per group of a data type
GroupBytes(data_type) ==
    IF data_type = CSI2_DT_RAW10 THEN 5
    ELSE IF data_type = CSI2_DT_RAW16 THEN 2
    ELSE IF data_type = CSI2_DT_RGB888 THEN 3
    ELSE IF data_type = CSI2_DT_YUV422_8BIT THEN 4
    ELSE 1

GroupSamples(data_type) ==
    IF data_type = CSI2_DT_RAW10 THEN 4
    ELSE IF data_type = CSI2_DT_YUV422_8BIT THEN 2
    ELSE 1

\* C13: for every format a payload of L bytes gives floor(L/g)*s pixel
\* samples, (g,s) the bytes and samples per group of the format; the L mod g
\* trailing bytes give none.
C13_DropsTrailingGroups ==
    scenario.kind = "pixels" =>
        Len(PixelTexts) = (Len(scenario.bytes) \div GroupBytes(scenario.data_type))
                              * GroupSamples(scenario.data_type)

ActiveLanes == Cardinality({lane \in Lanes : LaneIsActive(self, lane)})

\* C15: the estimator is idempotent: of the runs on unchanged counters,
\* start times and sample number only the first may put a LANE_COUNT record,
\* and only if the count computed differs from the count reported last; no
\* LANE_COUNT record carries the same count as the record before it.
C15_EstimatorIdempotent ==
    scenario.kind = "estimator" =>
        /\ scenario.runs >= 1 =>
              /\ self.detected_lanes = ActiveLanes
              /\ Len(self.out_python) <= 1
              /\ self.out_python # << >> =>
                    /\ self.out_python[1].ptype = "LANE_COUNT"
                    /\ self.out_python[1].pdata = <<ActiveLanes>>
                    /\ ActiveLanes # scenario.before
        /\ scenario.runs >= 2 => self.out_python = << >>
        /\ \A i \in 1 .. Len(Entries("LANE_COUNT")) - 1 :
              Entries("LANE_COUNT")[i].pdata # Entries("LANE_COUNT")[i + 1].pdata

\* the estimator has reported two counts and has since run twice on the
\* same inputs
C15_Witness ==
    /\ scenario.kind = "estimator"
    /\ scenario.runs >= 2
    /\ Len(Entries("LANE_COUNT")) >= 2

\* the per-lane state of a lane: lane state, state start, shift register,
\* bit counter, sync flags, packet-end flag, transition counter
PerLane(s, lane) ==
    <<s.lane_states[lane], s.lane_state_start[lane], s.bit_shifters[lane],
      s.bit_counters[lane], s.sync_detected[lane], s.byte_synchronized[lane],
      s.lane_sync_detected[lane], s.packet_end_detected[lane],
      s.lane_transition_count[lane], s.lane_activity_start[lane]>>

\* the latest loop iteration put a record or an annotation of the lane: a
\* LANE_STATE record, a lane-state annotation or a SYNC annotation
LaneEventPut(s, lane) ==
    \/ LaneStateEvents(s, lane) # << >>
    \/ \E i \in 1 .. Len(s.out_ann) : s.out_ann[i].cls \in {10 + lane, 14 + lane}

\* C16: a loop iteration on a sample in which a lane's reading is absent
\* changes none of the per-lane state of that lane and puts no record or
\* annotation of that lane.
C16_AbsentLaneUntouched ==
    [][\A l \in Lanes :
          (resets' = resets /\ pins'[l].p = None) =>
              /\ PerLane(self', l) = PerLane(self, l)
              /\ ~LaneEventPut(self', l)]_vars

\* a packet has just completed on one lane while another lane is absent
C16_Witness ==
    /\ OfType(self.out_python, "PACKET_COMPLETE") # << >>
    /\ \E l \in Lanes : pins[l].p = None
    /\ \E l \in Lanes : pins[l].p # None

\* the packet records among the records of a loop iteration
PacketsPut(s) ==
    SelectSeq(s.out_python, LAMBDA e : e.ptype \in {"SHORT_PACKET", "LONG_PACKET", "FOOTER"})

\* C17: the step that appends the 4th post-sync byte classifies the packet
\* by the full first byte: a data ID up to 0x0F makes it short, of length 4,
\* so that one SHORT_PACKET is put and the packet completes in that step;
\* any other data ID makes it long with expected length
\* 4 + (byte1 | byte2 << 8) + 2 and nothing is put in that step; no packet
\* record is ever put in a step that does not complete a packet.
C17_ClassifiedByDataId ==
    [][/\ (Len(self.packet_buffer) = 3 /\ self'.packet_buffer # self.packet_buffer) =>
              IF self.packet_buffer[1] <= 15
              THEN /\ Len(PacketsPut(self')) = 1
                   /\ PacketsPut(self')[1].ptype = "SHORT_PACKET"
                   /\ OfType(self'.out_python, "PACKET_COMPLETE") # << >>
                   /\ self'.packet_buffer = << >>
              ELSE /\ self'.expected_packet_length
                          = 4 + (self.packet_buffer[2] + 256 * self.packet_buffer[3]) + 2
                   /\ self'.packet_buffer = Append(self.packet_buffer, self'.packet_buffer[4])
                   /\ PacketsPut(self') = << >>
                   /\ OfType(self'.out_python, "PACKET_COMPLETE") = << >>
       /\ OfType(self'.out_python, "PACKET_COMPLETE") = << >> => PacketsPut(self') = << >>]_vars

\* a header just classified long: data ID 0x10, the first above the
\* boundary, with a word count that has a high byte
C17_Witness ==
    /\ scenario.kind = "classify"
    /\ self.packet_buffer = <<16, 0, 1, 0>>
    /\ self.expected_packet_length = 262

\* the reading of a lane as detect_lane_state takes it: a missing negative
\* pin counts as 0 (pd.py:256-258)
Reading(pin) == IF pin.n = None THEN Pin(pin.p, 0) ELSE pin

\* the lane has a reading in the sample of the step, and the step is a loop
\* iteration
Sampled(lane) == resets' = resets /\ pins'[lane].p # None

\* C18: a lane enters THS-SETTLE on a sample if and only if its state after
\* the previous sample was LP-00 and the reading is neither (0,0) nor (1,1).
C18_ThsSettleOnlyFromLp00 ==
    [][\A l \in Lanes :
          Sampled(l) =>
              ((self.lane_states[l] # LANE_STATE_THS_SETTLE
                    /\ self'.lane_states[l] = LANE_STATE_THS_SETTLE)
               <=> (self.lane_states[l] = LANE_STATE_LP_00
                    /\ Reading(pins'[l]) \notin {LP00, LP11}))]_vars

\* C19: after a sample on which a lane reads (1,1) its flags lane_was_lp00,
\* lane_in_ths_settle and lane_sync_detected are all false.
C19_Lp11ClearsFlags ==
    \A l \in Lanes :
        Reading(pins[l]) = LP11 =>
            /\ ~self.lane_was_lp00[l]
            /\ ~self.lane_in_ths_settle[l]
            /\ ~self.lane_sync_detected[l]

\* C20: a lane in THS-SETTLE that does not read (1,1) stays in THS-SETTLE
\* while no sync marker has been detected on it and is in HS on the sample
\* after the detection; reading (1,1) takes it to LP-11; a lane enters HS
\* from THS-SETTLE only, and only with a sync marker detected on it since it
\* last read (1,1).
C20_ThsSettleUntilSync ==
    [][\A l \in Lanes :
          Sampled(l) =>
              /\ self.lane_states[l] = LANE_STATE_THS_SETTLE =>
                    self'.lane_states[l] =
                        IF Reading(pins'[l]) = LP11 THEN LANE_STATE_LP_11
                        ELSE IF self.lane_sync_detected[l] THEN LANE_STATE_HS
                        ELSE LANE_STATE_THS_SETTLE
              /\ (self.lane_states[l] # LANE_STATE_HS /\ self'.lane_states[l] = LANE_STATE_HS) =>
                    /\ self.lane_states[l] = LANE_STATE_THS_SETTLE
                    /\ self.lane_sync_detected[l]]_vars

\* a packet completed in the loop iteration that led to the object s
CompletePut(s) == OfType(s.out_python, "PACKET_COMPLETE") # << >>

\* C21: a lane in HS that does not read (1,1) stays in HS unless a packet
\* completed on the sample before; after a completion it is in HS-TRAIL on
\* the next sample, or in LP-11 if that sample reads (1,1), and in either
\* case nothing is shifted into its deserializer on that sample.
C21_HsUntilPacketEnd ==
    [][\A l \in Lanes :
          (Sampled(l) /\ self.lane_states[l] = LANE_STATE_HS) =>
              /\ self'.lane_states[l] =
                     IF Reading(pins'[l]) = LP11 THEN LANE_STATE_LP_11
                     ELSE IF CompletePut(self) THEN LANE_STATE_HS_TRAIL
                     ELSE LANE_STATE_HS
              /\ CompletePut(self) =>
                     /\ self'.bit_counters[l] = self.bit_counters[l]
                     /\ self'.bit_shifters[l] = self.bit_shifters[l]]_vars

\* log entry i is the LANE_STATE record that puts lane 0 in the given state
EntersAt(i, state) ==
    log[i].ptype = "LANE_STATE" /\ log[i].pdata = <<0, state>>

\* C23: lane 0 moves from HS to HS-TRAIL only if a packet completed after
\* it most recently entered HS: every HS-TRAIL record of the log has a
\* PACKET_COMPLETE between it and the HS record before it; a short packet
\* sent after a packet whose last bit was followed at once by LP-11 is
\* still dispatched.
C23_TrailNeedsOwnPacketEnd ==
    scenario.kind \in {"short", "long", "classify"} =>
        /\ \A i \in 1 .. Len(log) :
              EntersAt(i, LANE_STATE_HS_TRAIL) =>
                  \E j \in 1 .. i - 1 :
                      /\ log[j].ptype = "PACKET_COMPLETE"
                      /\ \E h \in 1 .. j - 1 : EntersAt(h, LANE_STATE_HS)
                      /\ \A h \in j .. i - 1 : ~EntersAt(h, LANE_STATE_HS)
        /\ (Done /\ scenario.kind = "short" /\ scenario.history = "direct") =>
              \E i \in 1 .. Len(log) :
                  log[i].ptype = "SHORT_PACKET" /\ log[i].at > Len(Lead(scenario))

\* C22: a lane in HS-TRAIL stays in HS-TRAIL on every sample that does not
\* read (1,1), also on (0,1) or (1,0) after (0,0), and goes to LP-11 on the
\* sample that reads (1,1).
C22_TrailUntilLp11 ==
    [][\A l \in Lanes :
          (Sampled(l) /\ self.lane_states[l] = LANE_STATE_HS_TRAIL) =>
              self'.lane_states[l] =
                  IF Reading(pins'[l]) = LP11 THEN LANE_STATE_LP_11
                  ELSE LANE_STATE_HS_TRAIL]_vars

\* a lane is still in HS-TRAIL on a reading (0,1) or (1,0) that follows a
\* reading (0,0) taken in HS-TRAIL
C22_Witness ==
    \E l \in Lanes :
        /\ self.lane_states[l] = LANE_STATE_HS_TRAIL
        /\ pins[l] \in {LP01, LP10}
        /\ self.lane_was_lp00[l]

\* C24: at the end of the loop iteration in which a packet completes, the
\* lane's sync_detected is false, the packet state is IDLE and no SYNC was
\* put in that iteration: the last byte of a packet is not taken as a sync
\* marker, whatever its value.
C24_LastByteIsNoSync ==
    CompletePut(self) =>
        /\ ~self.sync_detected[0]
        /\ self.packet_state = "IDLE"
        /\ OfType(self.out_python, "SYNC") = << >>

\* C25: before synchronization the shift register is compared with the
\* marker only when a byte has been formed: a SYNC put while lane 0 is in
\* THS-SETTLE comes on a sample at which the number of bits shifted since
\* the lane entered THS-SETTLE (one per sample, the entering sample
\* included) is a multiple of 8.
C25_SyncOnlyOnFormedByte ==
    (scenario.kind # "free" /\ SyncPut(0) /\ self.lane_states[0] = LANE_STATE_THS_SETTLE) =>
        (self.samplenum - self.lane_state_start[0] + 1) % 8 = 0

\* the number of samples of the script given to the decoder so far
Given == Len(ScriptOf(scenario)) - Len(tx[0])

\* the last of those samples on which lane 0 read (1,1) or (0,0): the bits
\* of a burst are the readings that follow it
LastIdle ==
    LET idle == {j \in 1 .. Given : ScriptOf(scenario)[j] \in {LP11, LP00}}
    IN  IF idle = {} THEN 0 ELSE CHOOSE j \in idle : \A k \in idle : k <= j

\* the bits shifted on lane 0 since it last left LP-11, in arrival order
BitsShifted == [i \in 1 .. Given - LastIdle |-> ScriptOf(scenario)[LastIdle + i].p]

\* the byte that 8 bits make, the first arrived least significant
RECURSIVE ByteOf(_)
ByteOf(bits) == IF bits = << >> THEN 0 ELSE Head(bits) + 2 * ByteOf(Tail(bits))

\* C26: a SYNC is put for lane 0 on a sample only if at least 8 bits have
\* been shifted on the lane since it last left LP-11 and the last 8 of them,
\* the first arrived least significant, make 0xB8.
C26_SyncFromOwnBitsOnly ==
    (scenario.kind # "free" /\ SyncPut(0)) =>
        /\ Len(BitsShifted) >= 8
        /\ ByteOf(SubSeq(BitsShifted, Len(BitsShifted) - 7, Len(BitsShifted))) = SYNC_MARKER

\* C27: at every sample boundary each lane's bit counter is within 0..7 and
\* its shift register within 0..255.
C27_CounterAndRegisterInRange ==
    \A l \in Lanes :
        /\ self.bit_counters[l] \in 0 .. 7
        /\ self.bit_shifters[l] \in 0 .. 255

\* log entry i is a packet record
PacketAt(i) == log[i].ptype \in {"SHORT_PACKET", "LONG_PACKET"}

\* C28: every packet record is introduced by its own sync marker: a SYNC
\* record precedes it with no other packet record and no return of the
\* lane to LP-11 in between.
C28_PacketHasOwnSync ==
    scenario.kind # "free" =>
        \A i \in 1 .. Len(log) :
            PacketAt(i) =>
                \E j \in 1 .. i - 1 :
                    /\ log[j].ptype = "SYNC"
                    /\ \A k \in j + 1 .. i - 1 :
                          ~PacketAt(k) /\ ~EntersAt(k, LANE_STATE_LP_11)

\* C29: expected_packet_length is 0 whenever the packet buffer holds fewer
\* than 4 bytes; it changes only in the step that brings the buffer to 4
\* bytes or in a step that clears the buffer.
C29_ExpectedLengthSetOnce ==
    [][/\ Len(self'.packet_buffer) < 4 => self'.expected_packet_length = 0
       /\ self'.expected_packet_length # self.expected_packet_length =>
              \/ Len(self.packet_buffer) < 4 /\ Len(self'.packet_buffer) >= 4
              \/ self'.packet_buffer = << >>]_vars

\* C30: at every sample boundary the packet assembler is IDLE or
\* COLLECTING_PACKET; a sample makes it COLLECTING_PACKET only if a SYNC
\* was detected on that sample and IDLE only if a packet was completed on
\* that sample; and whenever it is IDLE the packet buffer is empty and
\* expected_packet_length is 0.
C30_AssemblerStates ==
    [][/\ self'.packet_state \in {"IDLE", "COLLECTING_PACKET"}
       /\ (self.packet_state # "COLLECTING_PACKET"
              /\ self'.packet_state = "COLLECTING_PACKET") =>
              OfType(self'.out_python, "SYNC") # << >>
       /\ (self.packet_state # "IDLE" /\ self'.packet_state = "IDLE"
              /\ resets' = resets) => CompletePut(self')
       /\ self'.packet_state = "IDLE" =>
              /\ self'.packet_buffer = << >>
              /\ self'.expected_packet_length = 0]_vars

\* the assembler is back to IDLE on the sample that completed a packet
C30_Witness ==
    /\ CompletePut(self)
    /\ self.packet_state = "IDLE"
    /\ OfType(self.out_python, "SHORT_PACKET") # << >>

\* C31: after a run of the estimator the count it holds, and the count of
\* the LANE_COUNT record if it put one, is the number of lanes l in 0..3
\* with at least 10 entries into HS, an activity start at least 5000
\* samples back, and, for l # 0, at least 20 entries into HS; a lane other
\* than lane 0 with fewer than 20 entries is not counted; the count is
\* within 0..4.
C31_CountsActiveLanes ==
    (scenario.kind = "estimator" /\ scenario.runs >= 1) =>
        /\ LET counted ==
                   {l \in 0 .. 3 :
                       /\ self.lane_transition_count[l] >= 10
                       /\ self.lane_activity_start[l] # None
                       /\ self.samplenum - self.lane_activity_start[l] >= 5000
                       /\ (l = 0 \/ self.lane_transition_count[l] >= 20)}
           IN  /\ self.detected_lanes = Cardinality(counted)
               /\ \A i \in 1 .. Len(self.out_python) :
                     /\ self.out_python[i].ptype = "LANE_COUNT"
                     /\ self.out_python[i].pdata = <<Cardinality(counted)>>
        /\ self.detected_lanes <=
              Cardinality({l \in 0 .. 3 :
                              l = 0 \/ self.lane_transition_count[l] >= 20})
        /\ self.detected_lanes \in 0 .. 4

\* the estimator has run while lane 1 had 10 entries into HS, the first of
\* them 5000 samples back, and lane 0 was counted
C31_Witness ==
    /\ scenario.kind = "estimator"
    /\ scenario.runs >= 1
    /\ self.lane_transition_count[1] = 10
    /\ self.lane_activity_start[1] # None
    /\ self.samplenum - self.lane_activity_start[1] >= 5000
    /\ self.detected_lanes = 1

\* C32: within a run, a lane's lane_transition_count goes up by exactly 1
\* in a step in which the lane enters HS and is unchanged in every other
\* step; its lane_activity_start is set at its first entry into HS, to the
\* sample of that entry, and never changes afterwards; detected_lanes never
\* goes down; the LANE_COUNT records of the run carry strictly increasing
\* counts and there are at most 4 of them.
C32_ActivityOnlyGrows ==
    [][/\ \A l \in Lanes :
             LET enters_hs ==
                     /\ self'.lane_states[l] # self.lane_states[l]
                     /\ self'.lane_states[l] \in {LANE_STATE_HS, LANE_STATE_HS_SYNC}
             IN  /\ self'.lane_transition_count[l] =
                        self.lane_transition_count[l] + (IF enters_hs THEN 1 ELSE 0)
                 /\ self'.lane_activity_start[l] =
                        IF self.lane_activity_start[l] # None
                        THEN self.lane_activity_start[l]
                        ELSE IF enters_hs THEN self'.samplenum ELSE None
       /\ self'.detected_lanes >= self.detected_lanes
       /\ \A i \in 1 .. Len(log') - 1 : log'[i].pdata[1] < log'[i + 1].pdata[1]
       /\ Len(log') <= 4]_vars

\* the run has reported one lane and then two, lane 1 after its 20th entry
\* into HS
C32_Witness ==
    /\ scenario.kind = "activity"
    /\ Len(log) = 2
    /\ log[1].pdata = <<1>>
    /\ log[2].pdata = <<2>>
    /\ self.lane_transition_count[1] = 20
    /\ self.detected_lanes = 2

\* C33: with the lanes option fixed to a value in 1..4 no LANE_COUNT record
\* is ever put and the lane count the decoder uses is the configured value
\* at every sample.
C33_FixedLanesNoEstimate ==
    lanes_option \in 1 .. 4 =>
        /\ OfType(self.out_python, "LANE_COUNT") = << >>
        /\ Entries("LANE_COUNT") = << >>
        /\ (IF self.num_lanes = 0 THEN self.detected_lanes ELSE self.num_lanes)
               = lanes_option

\* C34: a payload spanning [start, end] that gives n >= 1 pixel samples
\* gives sample i (0-based) the slice from start + floor(i * span / n) to
\* start + floor((i + 1) * span / n), span = end - start, for every format
\* and every payload length: the first slice begins at start, the last
\* ends at end, each ends where the next begins.  (The payload of the
\* specification spans [0, 8 * length].)
C34_EvenSlices ==
    scenario.kind = "pixels" =>
        LET px == SelectSeq(self.out_ann, LAMBDA a : a.cls = 18)
        IN  \A i \in 0 .. Len(px) - 1 :
                /\ px[i + 1].ss = (i * 8 * Len(scenario.bytes)) \div Len(px)
                /\ px[i + 1].es = ((i + 1) * 8 * Len(scenario.bytes)) \div Len(px)

====
